---- MODULE Spec2Model ----
(***************************************************************************)
(* A model of changelog.py: the commit classifier (parse_message), the     *)
(* version/date grouper (parse_commits), the renderers (print_md_commits,  *)
(* write_md_commits, the JSON sinks) and the choice of the repository name *)
(* in main.  Python strings are sequences of one-character strings, so     *)
(* that str.replace, str.split, str.zfill, the regular expressions and the *)
(* string comparisons of sorted() are computed character by character.     *)
(***************************************************************************)
EXTENDS Integers, Sequences, FiniteSets, TLC

VARIABLES
    pc,        \* position in main: "start", "loop", "parsed", "done"; "line", "applied" for parse_message alone
    options,   \* what get_parsed_args returned: name, date_group, format, outfile
    env,       \* the file system main reads: package.json's name field (or none) and the cwd's base name
    pool,      \* the commits the repository can yield
    name,      \* main's local `name`
    commits,   \* the commits traverse_commits yielded and the loop has processed, in order
    version,   \* parse_commits' local `version`
    versions,  \* parse_commits' local `versions`: label -> date -> list of messages
    versions_keys, \* the keys of `versions` in insertion order, the order a dict iterates in
    output,    \* what the chosen sink received
    line,      \* the argument of parse_message
    result     \* what parse_message returned

vars ==
    <<pc, options, env, pool, name, commits, version, versions, versions_keys,
      output, line, result>>

-----------------------------------------------------------------------------
(* Characters and Python's string primitives *)

\* the characters of the model in ASCII order: Python compares strings by code point
AsciiOrder ==
    <<"\n", " ", "#", "'", "(", ")", "-", ".", "/",
      "0", "1", "2", "3", "4", "5", "6", "7", "8", "9", ":", "?", "@",
      "A", "B", "C", "D", "E", "F", "G", "H", "I", "J", "K", "L", "M",
      "N", "O", "P", "Q", "R", "S", "T", "U", "V", "W", "X", "Y", "Z",
      "a", "b", "c", "d", "e", "f", "g", "h", "i", "j", "k", "l", "m",
      "n", "o", "p", "q", "r", "s", "t", "u", "v", "w", "x", "y", "z">>

Ord(c) == CHOOSE i \in DOMAIN AsciiOrder : AsciiOrder[i] = c

Digits == <<"0", "1", "2", "3", "4", "5", "6", "7", "8", "9">>

IsDigit(c) == \E i \in DOMAIN Digits : Digits[i] = c

UpperLetters == SubSeq(AsciiOrder, 23, 48)

LowerLetters == SubSeq(AsciiOrder, 49, 74)

\* str.lower on one character, as re.IGNORECASE folds it
LowerChar(c) ==
    IF \E i \in DOMAIN UpperLetters : UpperLetters[i] = c
    THEN LowerLetters[CHOOSE i \in DOMAIN UpperLetters : UpperLetters[i] = c]
    ELSE c

Lower(s) == [i \in DOMAIN s |-> LowerChar(s[i])]

\* s[i:i+len(sub)] == sub
MatchAt(s, sub, i) ==
    /\ i + Len(sub) - 1 <= Len(s)
    /\ \A k \in 1..Len(sub) : s[i + k - 1] = sub[k]

\* sub in s
Contains(s, sub) == \E i \in 1..(Len(s) + 1) : MatchAt(s, sub, i)

\* the least index from i on where sub occurs in s, 0 when there is none: s.find(sub, i)
Find(s, sub, i) ==
    LET hits == {j \in i..Len(s) : MatchAt(s, sub, j)}
    IN  IF hits = {} THEN 0 ELSE CHOOSE j \in hits : \A k \in hits : j <= k

RECURSIVE ReplaceFrom(_, _, _, _)
ReplaceFrom(s, old, new, i) ==
    LET j == Find(s, old, i)
    IN  IF j = 0 THEN SubSeq(s, i, Len(s))
        ELSE SubSeq(s, i, j - 1) \o new \o ReplaceFrom(s, old, new, j + Len(old))

\* s.replace(old, new): every non-overlapping occurrence, leftmost first
Replace(s, old, new) == ReplaceFrom(s, old, new, 1)

\* s.split(sep) for a one-character separator
RECURSIVE Split(_, _)
Split(s, sep) ==
    IF \E i \in DOMAIN s : s[i] = sep
    THEN LET i == CHOOSE j \in DOMAIN s : s[j] = sep /\ \A k \in 1..(j - 1) : s[k] # sep
         IN  <<SubSeq(s, 1, i - 1)>> \o Split(SubSeq(s, i + 1, Len(s)), sep)
    ELSE <<s>>

\* s < t as Python compares strings: at the first difference, else by length
StrLess(s, t) ==
    LET n == IF Len(s) < Len(t) THEN Len(s) ELSE Len(t)
        diff == {i \in 1..n : s[i] # t[i]}
    IN  IF diff = {} THEN Len(s) < Len(t)
        ELSE LET i == CHOOSE j \in diff : \A k \in diff : j <= k
             IN  Ord(s[i]) < Ord(t[i])

-----------------------------------------------------------------------------
(* parse_message *)

\* IssueStart with a lazy leading .*? in place of the greedy one: the first match
IssueStartFirst(msg) ==
    LET starts == {i \in 1..(Len(msg) - 1) : msg[i] = "#" /\ IsDigit(msg[i + 1])}
    IN  IF starts = {} THEN 0
        ELSE CHOOSE i \in starts : \A j \in starts : i <= j

\* the index where group 1 of ".*(#[\d]+).*" starts under re.match, 0 when there
\* is no match: the leading .* is greedy, so the engine keeps the longest prefix
\* after which "#" and a digit follow
IssueStart(msg) ==
    LET starts == {i \in 1..(Len(msg) - 1) : msg[i] = "#" /\ IsDigit(msg[i + 1])}
    IN  IF starts = {} THEN 0
        ELSE CHOOSE i \in starts : \A j \in starts : j <= i

\* the end of the digit run that starts at i: [\d]+ is greedy
RECURSIVE RunEnd(_, _)
RunEnd(msg, i) ==
    IF i < Len(msg) /\ IsDigit(msg[i + 1]) THEN RunEnd(msg, i + 1) ELSE i

\* rematch.group(1) if rematch else ""
Issue(msg) ==
    LET i == IssueStart(msg)
    IN  IF i = 0 THEN <<>> ELSE SubSeq(msg, i, RunEnd(msg, i + 1))

\* the chain of .replace calls, in the order of the source
Rewrites ==
    << <<<<"a","d","d"," ">>, <<"A","d","d",":"," ">>>>,
       <<<<"a","d","d",":">>, <<"A","d","d",":">>>>,
       <<<<"A","d","d"," ">>, <<"A","d","d",":"," ">>>>,
       <<<<"f","e","a"," ">>, <<"F","e","a","t","u","r","e",":"," ">>>>,
       <<<<"f","e","a",":">>, <<"F","e","a","t","u","r","e",":">>>>,
       <<<<"F","e","a"," ">>, <<"F","e","a","t","u","r","e",":"," ">>>>,
       <<<<"F","e","a",":">>, <<"F","e","a","t","u","r","e",":">>>>,
       <<<<"f","e","a","?">>, <<"F","e","a","t","u","r","e",":"," ">>>>,
       <<<<"f","e","a","t","u","r","e"," ">>, <<"F","e","a","t","u","r","e",":"," ">>>>,
       <<<<"f","i","x"," ">>, <<"F","i","x",":"," ">>>>,
       <<<<"f","i","x",":">>, <<"F","i","x",":">>>>,
       <<<<"F","i","x"," ">>, <<"F","i","x",":"," ">>>>,
       <<<<"r","e","f"," ">>, <<"R","e","f","a","c","t","o","r",":"," ">>>>,
       <<<<" ","r","e","f"," ">>, <<"R","e","f","a","c","t","o","r",":"," ">>>>,
       <<<<"R","e","f",":">>, <<"R","e","f","a","c","t","o","r",":">>>>,
       <<<<"r","e","f","a","c","t","o","r"," ">>, <<"R","e","f","a","c","t","o","r",":"," ">>>>,
       <<<<"R","e","f","a","c","t","o","r"," ">>, <<"R","e","f","a","c","t","o","r",":"," ">>>>,
       <<<<"r","f","c"," ">>, <<"R","e","f","a","c","t","o","r",":"," ">>>>,
       <<<<"r","f","c",":">>, <<"R","e","f","a","c","t","o","r",":">>>>,
       <<<<"r","f","t"," ">>, <<"R","e","f","a","c","t","o","r",":"," ">>>>,
       <<<<"r","f","t",":">>, <<"R","e","f","a","c","t","o","r",":">>>>,
       <<<<"R","f","t",":">>, <<"R","e","f","a","c","t","o","r",":">>>>,
       <<<<"e","n","h"," ">>, <<"E","n","h","a","n","c","e","m","e","n","t",":"," ">>>>,
       <<<<"E","n","h"," ">>, <<"E","n","h","a","n","c","e","m","e","n","t",":"," ">>>>,
       <<<<"e","n","h",":">>, <<"E","n","h","a","n","c","e","m","e","n","t",":">>>>,
       <<<<"E","n","h",":">>, <<"E","n","h","a","n","c","e","m","e","n","t",":">>>>,
       <<<<"e","n","h","a","n","c","e","m","e","n","t"," ">>, <<"E","n","h","a","n","c","e","m","e","n","t",":">>>>,
       <<<<"E","n","h","a","n","c","e","m","e","n","t"," ">>, <<"E","n","h","a","n","c","e","m","e","n","t",":">>>> >>

\* the rules from the k-th on applied to msg, each to what the one before it
\* returned (the test on Len has the intermediate string computed before the
\* next rule is applied to it)
RECURSIVE ApplyRewrites(_, _)
ApplyRewrites(msg, k) ==
    IF k > Len(Rewrites) THEN msg
    ELSE LET replaced == Replace(msg, Rewrites[k][1], Rewrites[k][2])
         IN  IF Len(replaced) >= 0 THEN ApplyRewrites(replaced, k + 1) ELSE replaced

\* " (Related to issue: {})".format(issue)
IssueSuffix(issue) == <<" ","(","R","e","l","a","t","e","d"," ","t","o"," ","i","s","s","u","e",":"," ">> \o issue \o <<")">>

\* msg.replace(issue, "").replace(" :", ":") + suffix
ExtractIssue(msg) ==
    LET issue == Issue(msg)
    IN  IF issue # <<>>
        THEN Replace(Replace(msg, issue, <<>>), <<" ",":">>, <<":">>) \o IssueSuffix(issue)
        ELSE msg

parse_message(msg) == ApplyRewrites(ExtractIssue(msg), 1)

-----------------------------------------------------------------------------
(* parse_commits *)

SKIP_WORDS ==
    <<<<"u","t","d">>, <<"w","i","p">>, <<"w","t","f">>, <<"f","o","r","m","a","t","e","r">>, <<"s","e","t"," ","v","e","r","s","i","o","n">>, <<"A","p","p"," ","v","e","r","s","i","o","n">>,
      <<"n","e","w"," ","v","e","r","s","i","o","n">>, <<"i","n","i","t">>, <<"v","e","r",":">>>>

VERSION_WORDS == <<<<"m","e","r","g","e"," ","b","r","a","n","c","h">>, <<"m","e","r","g","e"," ","t","a","g">>, <<"p","u","l","l">>, <<"m","e","r","g","e">>>>

\* re.compile('|'.join(words), re.IGNORECASE).search(msg): the words hold no
\* regular-expression operator, so the search is a case-folded substring test
SearchIgnoreCase(words, msg) ==
    \E k \in DOMAIN words : Contains(Lower(msg), Lower(words[k]))

\* Skipped without re.IGNORECASE
SkippedCaseSensitive(commit) ==
    ~(~(\E k \in DOMAIN SKIP_WORDS : Contains(commit.msg, SKIP_WORDS[k]))
        /\ commit.in_main_branch)

\* the condition of the loop's outer if, negated
Skipped(commit) ==
    ~(~SearchIgnoreCase(SKIP_WORDS, commit.msg) /\ commit.in_main_branch)

TwoDigits(n) == <<Digits[((n \div 10) % 10) + 1], Digits[(n % 10) + 1]>>

\* commit.author_date.strftime("%Y-%m-%d")
strftime(d) ==
    TwoDigits(d.year \div 100) \o TwoDigits(d.year) \o <<"-">>
        \o TwoDigits(d.month) \o <<"-">> \o TwoDigits(d.day)

IsVersionChar(c) == IsDigit(c) \/ c = "."

RECURSIVE VersionRunEnd(_, _)
VersionRunEnd(s, i) ==
    IF i < Len(s) /\ IsVersionChar(s[i + 1]) THEN VersionRunEnd(s, i + 1) ELSE i

\* where group 1 starts when "/" stands at i: v? takes a "v" if a version
\* character follows it; 0 when no version character follows
GroupStartAfterSlash(s, i) ==
    IF i + 1 <= Len(s) /\ IsVersionChar(s[i + 1]) THEN i + 1
    ELSE IF i + 2 <= Len(s) /\ s[i + 1] = "v" /\ IsVersionChar(s[i + 2]) THEN i + 2
    ELSE 0

\* group 1 of re.match(".*[\/]{1}v?([\d.]+).*", msg), <<>> when there is no
\* match: "." does not match a newline and re.match is anchored, so the "/" is in
\* the first line; the leading .* is greedy, so it is the last "/" that works
ReleaseMatch(msg) ==
    LET first == Split(msg, "\n")[1]
        slashes == {i \in DOMAIN first :
                        first[i] = "/" /\ GroupStartAfterSlash(first, i) # 0}
    IN  IF slashes = {} THEN <<>>
        ELSE LET i == CHOOSE j \in slashes : \A k \in slashes : k <= j
                 g == GroupStartAfterSlash(first, i)
             IN  SubSeq(first, g, VersionRunEnd(first, g))

\* the label a commit switches the current version to, <<>> when it switches nothing
ReleaseLabel(msg) ==
    IF Contains(msg, <<"r","e","l","e","a","s","e">>) THEN ReleaseMatch(msg) ELSE <<>>

\* d[k] = v on a dict
Put(d, k, v) == [x \in DOMAIN d \cup {k} |-> IF x = k THEN v ELSE d[x]]

\* the keys of a dict after d[k] = v: a new key goes last, an old one keeps its place
PutKey(keys, k) ==
    IF \E i \in DOMAIN keys : keys[i] = k THEN keys ELSE Append(keys, k)

\* x in list
InList(x, list) == \E i \in DOMAIN list : list[i] = x

\* the for loop over commit.msg.split('\n'): the test is on the raw line, the
\* append is of the parsed line
RECURSIVE AppendLines(_, _)
AppendLines(list, lines) ==
    IF lines = <<>> THEN list
    ELSE AppendLines(IF ~InList(Head(lines), list)
                     THEN Append(list, parse_message(Head(lines)))
                     ELSE list,
                     Tail(lines))

\* the else branch: the test is on the parsed message
AppendSingle(list, msg) ==
    LET m == parse_message(msg)
    IN  IF ~InList(m, list) THEN Append(list, m) ELSE list

\* AppendMessages without the test on VERSION_WORDS
AppendMessagesUnfiltered(list, msg) ==
    IF Contains(msg, <<"\n">>)
    THEN AppendLines(list, Split(msg, "\n"))
    ELSE AppendSingle(list, msg)

\* lines 188-196: what the date's list becomes
AppendMessages(list, msg) ==
    IF ~SearchIgnoreCase(VERSION_WORDS, msg)
    THEN IF Contains(msg, <<"\n">>)
         THEN AppendLines(list, Split(msg, "\n"))
         ELSE AppendSingle(list, msg)
    ELSE list

\* lines 181-185: the current version after the release test
SwitchVersion(cur, msg) ==
    IF ReleaseLabel(msg) # <<>> THEN ReleaseLabel(msg) ELSE cur

\* lines 181-185: the ledger after the release test, versions[version] = {}
SwitchLedger(vs, msg) ==
    IF ReleaseLabel(msg) # <<>> THEN Put(vs, ReleaseLabel(msg), <<>>) ELSE vs

\* lines 186-187
EnsureDate(dates, date) ==
    IF date \notin DOMAIN dates THEN Put(dates, date, <<>>) ELSE dates

\* one pass of the loop body: <<version, versions, keys of versions>>
LoopBody(cur, vs, keys, commit) ==
    IF Skipped(commit) THEN <<cur, vs, keys>>
    ELSE LET date == strftime(commit.author_date)
             v == SwitchVersion(cur, commit.msg)
             vs1 == SwitchLedger(vs, commit.msg)
             dates == EnsureDate(vs1[v], date)
             list == AppendMessages(dates[date], commit.msg)
         IN  <<v, Put(vs1, v, Put(dates, date, list)), PutKey(keys, v)>>

-----------------------------------------------------------------------------
(* get_version and the renderers *)

RECURSIVE zfill(_, _)
zfill(s, width) == IF Len(s) >= width THEN s ELSE zfill(<<"0">> \o s, width)

ZfillWidth == 4

\* get_version without the zero padding
get_version_unpadded(elem) ==
    LET parts == Split(elem, ".")
        major == IF Len(parts) > 0 THEN parts[1] ELSE <<"0">>
        minor == IF Len(parts) > 1 THEN parts[2] ELSE <<"0">>
        patch == IF Len(parts) > 2 THEN parts[3] ELSE <<"0">>
    IN  major \o <<".">> \o minor \o <<".">> \o patch

\* the sort key of a version label
get_version(elem) ==
    LET parts == Split(elem, ".")
        major == IF Len(parts) > 0 THEN parts[1] ELSE <<"0">>
        minor == IF Len(parts) > 1 THEN parts[2] ELSE <<"0">>
        patch == IF Len(parts) > 2 THEN parts[3] ELSE <<"0">>
    IN  zfill(major, ZfillWidth) \o <<".">> \o zfill(minor, ZfillWidth)
            \o <<".">> \o zfill(patch, ZfillWidth)

RemoveAt(s, i) == SubSeq(s, 1, i - 1) \o SubSeq(s, i + 1, Len(s))

\* sorted(versions, reverse=True, key=get_version): the sort is stable, labels
\* with equal keys keep the dict's order
RECURSIVE SortVersions(_)
SortVersions(keys) ==
    IF keys = <<>> THEN <<>>
    ELSE LET IsMax(i) == \A j \in DOMAIN keys :
                            ~StrLess(get_version(keys[i]), get_version(keys[j]))
             i == CHOOSE x \in DOMAIN keys :
                      IsMax(x) /\ \A y \in 1..(x - 1) : ~IsMax(y)
         IN  <<keys[i]>> \o SortVersions(RemoveAt(keys, i))

\* sorted(dates, reverse=True) on the keys of a date dict
RECURSIVE SortDates(_)
SortDates(ds) ==
    IF ds = {} THEN <<>>
    ELSE LET m == CHOOSE x \in ds : \A y \in ds : ~StrLess(x, y)
         IN  <<m>> \o SortDates(ds \ {m})

\* sorted(messages)
RECURSIVE SortMessages(_)
SortMessages(ms) ==
    IF ms = <<>> THEN <<>>
    ELSE LET IsMin(i) == \A j \in DOMAIN ms : ~StrLess(ms[j], ms[i])
             i == CHOOSE x \in DOMAIN ms : IsMin(x) /\ \A y \in 1..(x - 1) : ~IsMin(y)
         IN  <<ms[i]>> \o SortMessages(RemoveAt(ms, i))

Bullets(prefix, ms) == [i \in DOMAIN ms |-> prefix \o ms[i]]

Placeholder == <<"B","u","g","f","i","x","e","s"," ","a","n","d"," ","i","m","p","r","o","v","e","m","e","n","t","s">>

\* a heading as the sink receives it: print('\n...') puts an empty line before
\* it, f.write('\n...') only ends the line before
Heading(blank, text) == IF blank THEN <<<<>>, text>> ELSE <<text>>

\* the inner loop over sorted(dates, reverse=True), from position k on, with the
\* loop's locals: [lines, last_date, combined_messages]
RECURSIVE DateLoop(_, _, _, _, _, _)
DateLoop(ds, k, dates, date_group, blank, acc) ==
    IF k > Len(ds) THEN acc
    ELSE LET d == ds[k]
             messages == dates[d]
             last_date == IF date_group THEN d ELSE acc.last_date
             step ==
                IF date_group
                THEN IF Len(messages) > 0
                     THEN [lines |-> acc.lines \o Heading(blank, <<"#","#","#"," ","D","a","t","e",":"," ">> \o d)
                                        \o Bullets(<<" "," "," "," ","-"," ">>, SortMessages(messages)),
                           last_date |-> last_date,
                           combined_messages |-> acc.combined_messages]
                     ELSE [lines |-> acc.lines
                                        \o Heading(blank, <<"#","#","#"," ","D","a","t","e",":"," ">> \o last_date)
                                        \o <<<<" "," "," "," ","-"," ">> \o Placeholder>>,
                           last_date |-> last_date,
                           combined_messages |-> acc.combined_messages]
                ELSE [lines |-> acc.lines,
                      last_date |-> last_date,
                      combined_messages |-> acc.combined_messages \o messages]
         IN  DateLoop(ds, k + 1, dates, date_group, blank, step)

\* the outer loop over the sorted versions, from position k on: [lines, last_date]
RECURSIVE VersionLoop(_, _, _, _, _, _)
VersionLoop(vs, k, ledger, date_group, blank, acc) ==
    IF k > Len(vs) THEN acc
    ELSE LET v == vs[k]
             dates == ledger[v]
             inner == DateLoop(SortDates(DOMAIN dates), 1, dates, date_group, blank,
                               [lines |-> acc.lines \o Heading(blank, <<"#","#"," ","V","e","r","s","i","o","n"," ">> \o v),
                                last_date |-> acc.last_date,
                                combined_messages |-> <<>>])
             tail == IF ~date_group
                     THEN IF Len(inner.combined_messages) > 0
                          THEN Bullets(<<" "," ","-"," ">>, SortMessages(inner.combined_messages))
                          ELSE <<<<" "," ","-"," ">> \o Placeholder>>
                     ELSE <<>>
         IN  VersionLoop(vs, k + 1, ledger, date_group, blank,
                         [lines |-> inner.lines \o tail, last_date |-> inner.last_date])

MdLines(repo_name, ledger, keys, date_group, blank) ==
    VersionLoop(SortVersions(keys), 1, ledger, date_group, blank,
                [lines |-> <<<<"#"," ">> \o repo_name>>, last_date |-> <<>>]).lines

\* the lines written to stdout
print_md_commits(repo_name, ledger, keys, date_group) ==
    MdLines(repo_name, ledger, keys, date_group, TRUE)

\* the lines of the file written
write_md_commits(repo_name, ledger, keys, date_group) ==
    MdLines(repo_name, ledger, keys, date_group, FALSE)

\* {name: {"versions": versions}}, as json.dump and json.dumps receive it
JsonDocument(repo_name, ledger) == [key |-> repo_name, versions |-> ledger]

-----------------------------------------------------------------------------
(* main *)

\* --auto-name is a store_true flag whose default is True
AutoNameDefault == TRUE

\* the namespace argparse builds from the command line
get_parsed_args(argv) ==
    [auto_repo_name |-> IF argv.auto_name THEN TRUE ELSE AutoNameDefault,
     name |-> argv.repo_name,
     date_group |-> argv.date_group,
     format |-> argv.format,
     outfile |-> argv.outfile]

\* package.json's name without "@phicus/", or the cwd's base name when reading
\* it raises
get_repo_name(fs) ==
    IF fs.package_json.readable
    THEN Replace(fs.package_json.name, <<"@","p","h","i","c","u","s","/">>, <<>>)
    ELSE fs.cwd

\* line 286
ChosenName(opts, fs) ==
    IF opts.auto_repo_name THEN get_repo_name(fs) ELSE opts.name

VALID_FORMATS == {"md", "json"}

\* lines 302-311: the sink and what it receives
Sink(opts, repo_name, ledger, keys) ==
    IF opts.format = "md"
    THEN IF opts.outfile # ""
         THEN [sink |-> "file", lines |-> write_md_commits(repo_name, ledger, keys, opts.date_group)]
         ELSE [sink |-> "stdout", lines |-> print_md_commits(repo_name, ledger, keys, opts.date_group)]
    ELSE IF opts.outfile # ""
         THEN [sink |-> "file", json |-> JsonDocument(repo_name, ledger)]
         ELSE [sink |-> "stdout", json |-> JsonDocument(repo_name, ledger)]

NoOutput == [sink |-> "none"]

\* the number of commits traverse_commits yields at most
MaxCommits == 3

\* lines 284-291: the name is chosen; an empty name ends the run
ChooseName ==
    /\ pc = "start"
    /\ name' = ChosenName(options, env)
    /\ pc' = IF name' = <<>> THEN "failed" ELSE "loop"
    /\ UNCHANGED <<options, env, pool, commits, version, versions, versions_keys,
                   output, line, result>>

\* one iteration of the loop of parse_commits, on the next commit of the list
LoopStep ==
    /\ pc = "loop"
    /\ Len(commits) < MaxCommits
    /\ \E commit \in pool :
          LET after == LoopBody(version, versions, versions_keys, commit)
          IN  /\ commits' = Append(commits, commit)
              /\ version' = after[1]
              /\ versions' = after[2]
              /\ versions_keys' = after[3]
    /\ UNCHANGED <<pc, options, env, pool, name, output, line, result>>

\* the list is exhausted: parse_commits returns
LoopEnd ==
    /\ pc = "loop"
    /\ pc' = "parsed"
    /\ UNCHANGED <<options, env, pool, name, commits, version, versions,
                   versions_keys, output, line, result>>

\* lines 299-311: the format is checked and the sink called
Dispatch ==
    /\ pc = "parsed"
    /\ IF options.format \notin VALID_FORMATS
       THEN pc' = "failed" /\ output' = output
       ELSE pc' = "done" /\ output' = Sink(options, name, versions, versions_keys)
    /\ UNCHANGED <<options, env, pool, name, commits, version, versions,
                   versions_keys, line, result>>

Next == ChooseName \/ LoopStep \/ LoopEnd \/ Dispatch

-----------------------------------------------------------------------------
(* The runs checked *)

Commit(msg, day, main) ==
    [msg |-> msg,
     author_date |-> [year |-> 2024, month |-> 1, day |-> day],
     in_main_branch |-> main]

Argv(repo_name, date_group, format, outfile) ==
    [auto_name |-> FALSE, repo_name |-> repo_name, date_group |-> date_group,
     format |-> format, outfile |-> outfile]

NoPackageJson == [readable |-> FALSE, name |-> <<>>]

PackageJson(n) == [readable |-> TRUE, name |-> n]

\* the state main starts in, for a command line, a file system and a repository
Start(argv, fs, repo) ==
    /\ pc = "start"
    /\ options = get_parsed_args(argv)
    /\ env = fs
    /\ pool = repo
    /\ name = <<>>
    /\ commits = <<>>
    /\ version = <<"0",".","0",".","0">>
    /\ versions = (<<"0",".","0",".","0">> :> <<>>)
    /\ versions_keys = <<<<"0",".","0",".","0">>>>
    /\ output = NoOutput
    /\ line = <<>>
    /\ result = <<>>

DefaultFs == [package_json |-> NoPackageJson, cwd |-> <<"r","e","p","o">>]

\* a repository with plain, multi-line, skipped, off-branch, merge and release commits
PoolLedger ==
    { Commit(<<"f","i","x"," ","a">>, 2, TRUE),
      Commit(<<"f","i","x"," ","a","\n","f","i","x"," ","a">>, 3, TRUE),
      Commit(<<"W","I","P"," ","r","e","l","e","a","s","e","/","2",".","0">>, 3, TRUE),
      Commit(<<"r","e","l","e","a","s","e","/","2",".","0">>, 3, FALSE),
      Commit(<<"r","e","l","e","a","s","e","/","1",".","0">>, 2, TRUE),
      Commit(<<"M","e","r","g","e"," ","b","r","a","n","c","h"," ","'","r","e","l","e","a","s","e","/","1",".","0","'">>, 3, TRUE),
      Commit(<<"m","e","r","g","e"," ","b","r","a","n","c","h"," ","x">>, 2, TRUE),
      Commit(<<"M","e","r","g","e"," ","t","a","g"," ","'","r","e","l","e","a","s","e","/","0",".","0",".","0","'">>, 3, TRUE) }

Init ==
    \E dg \in BOOLEAN, outfile \in {"", "CHANGELOG.md"} :
        Start(Argv(<<>>, dg, "md", outfile), DefaultFs, PoolLedger)

Spec == Init /\ [][Next]_vars

\* a repository whose skipped commits carry release markers
PoolSkip ==
    { Commit(<<"f","i","x"," ","a">>, 2, TRUE),
      Commit(<<"r","e","l","e","a","s","e","/","1",".","0">>, 2, TRUE),
      Commit(<<"W","I","P"," ","r","e","l","e","a","s","e","/","2",".","0">>, 3, TRUE),
      Commit(<<"I","n","i","t","i","a","l"," ","x">>, 2, TRUE),
      Commit(<<"r","e","l","e","a","s","e","/","3",".","0","\n","a","d","d"," ","b">>, 3, FALSE) }

InitSkip == Start(Argv(<<>>, TRUE, "md", ""), DefaultFs, PoolSkip)

SpecSkip == InitSkip /\ [][Next]_vars

EndToEndCommits ==
    <<Commit(<<"A","d","d"," ","n","e","w"," ","f","e","a","t","u","r","e"," ","#","5">>, 2, TRUE), Commit(<<"m","e","r","g","e"," ","b","r","a","n","c","h"," ","x">>, 3, TRUE)>>

PoolEndToEnd ==
    {EndToEndCommits[1], EndToEndCommits[2], Commit(<<"f","i","x"," ","a">>, 3, TRUE)}

InitEndToEnd ==
    \E dg \in BOOLEAN, outfile \in {"", "CHANGELOG.md"} :
        Start(Argv(<<>>, dg, "md", outfile), DefaultFs, PoolEndToEnd)

SpecEndToEnd == InitEndToEnd /\ [][Next]_vars

\* a repository of release commits
PoolVersions ==
    { Commit(<<"r","e","l","e","a","s","e","/","2",".","0",".","0">>, 2, TRUE),
      Commit(<<"r","e","l","e","a","s","e","/","1","0",".","0",".","0">>, 2, TRUE),
      Commit(<<"r","e","l","e","a","s","e","/","1",".","9",".","9">>, 2, TRUE),
      Commit(<<"r","e","l","e","a","s","e","/","1",".","9">>, 2, TRUE),
      Commit(<<"r","e","l","e","a","s","e","/","0","0","0","1","0",".","0",".","0">>, 2, TRUE) }

InitVersions == Start(Argv(<<>>, FALSE, "md", ""), DefaultFs, PoolVersions)

SpecVersions == InitVersions /\ [][Next]_vars

PoolName == {Commit(<<"f","i","x"," ","a">>, 2, TRUE), Commit(<<"m","e","r","g","e"," ","b","r","a","n","c","h"," ","x">>, 3, TRUE)}

\* every command line and file system main chooses the name from
InitName ==
    \E auto \in BOOLEAN, repo_name \in {<<>>, <<"m","i","n","e">>},
       format \in {"md", "json", "xml"}, outfile \in {"", "out"},
       pkg \in {NoPackageJson, PackageJson(<<"@","p","h","i","c","u","s","/","a","p","p">>), PackageJson(<<"@","p","h","i","c","u","s","/">>)} :
        Start([Argv(repo_name, FALSE, format, outfile) EXCEPT !.auto_name = auto],
              [package_json |-> pkg, cwd |-> <<"r","e","p","o">>], PoolName)

SpecName == InitName /\ [][Next]_vars

-----------------------------------------------------------------------------
(* parse_message on its own *)

Chunks ==
    {<<"f","i","x",":">>, <<" ","l","o","g","i","n"," ","b","u","g"," ">>, <<"#","4","2">>, <<"#","4">>, <<"2">>, <<"e","n","h","a","n","c","e","m","e","n","t">>, <<" ",":">>}

\* the number of chunks a line is made of at most
MaxChunks == 3

RECURSIVE LinesOf(_)
LinesOf(n) ==
    IF n = 0 THEN {<<>>}
    ELSE LinesOf(n - 1) \cup {l \o c : l \in LinesOf(n - 1), c \in Chunks}

InitMessage ==
    /\ pc = "line"
    /\ line \in LinesOf(MaxChunks)
    /\ result = <<>>
    /\ options = get_parsed_args(Argv(<<>>, FALSE, "md", ""))
    /\ env = DefaultFs
    /\ pool = {}
    /\ name = <<>>
    /\ commits = <<>>
    /\ version = <<"0",".","0",".","0">>
    /\ versions = (<<"0",".","0",".","0">> :> <<>>)
    /\ versions_keys = <<<<"0",".","0",".","0">>>>
    /\ output = NoOutput

\* parse_message(line) is called
CallParseMessage ==
    /\ pc = "line"
    /\ result' = parse_message(line)
    /\ pc' = "applied"
    /\ UNCHANGED <<options, env, pool, name, commits, version, versions,
                   versions_keys, output, line>>

SpecMessage == InitMessage /\ [][CallParseMessage]_vars

-----------------------------------------------------------------------------
(* What the claims speak of *)

\* s.endswith(sub)
EndsWith(s, sub) == Len(sub) <= Len(s) /\ MatchAt(s, sub, Len(s) - Len(sub) + 1)

\* s.startswith(sub)
StartsWith(s, sub) == MatchAt(s, sub, 1)

\* the number of non-overlapping occurrences, s.count(sub)
RECURSIVE CountFrom(_, _, _)
CountFrom(s, sub, i) ==
    LET j == Find(s, sub, i)
    IN  IF j = 0 THEN 0 ELSE 1 + CountFrom(s, sub, j + Len(sub))

Range(s) == {s[i] : i \in DOMAIN s}

Last(s) == s[Len(s)]

Greatest(S) == CHOOSE x \in S : \A y \in S : y <= x

Least(S) == CHOOSE x \in S : \A y \in S : x <= y

\* a skipped commit, in the claims' words
ClaimSkipped(c) == SearchIgnoreCase(SKIP_WORDS, c.msg) \/ ~c.in_main_branch

\* a merge/version-marker message, in the claims' words
ClaimMarker(c) == SearchIgnoreCase(VERSION_WORDS, c.msg)

\* a commit whose text belongs in the ledger
Kept(c) == ~ClaimSkipped(c) /\ ~ClaimMarker(c)

\* a valid release marker: a commit that is not skipped and captures a label
IsReleaseMarker(c) == ~ClaimSkipped(c) /\ ReleaseLabel(c.msg) # <<>>

\* the label of the most recent valid release marker at or before commit i
ExpectedVersion(i) ==
    LET markers == {j \in 1..i : IsReleaseMarker(commits[j])}
    IN  IF markers = {} THEN <<"0",".","0",".","0">>
        ELSE ReleaseLabel(commits[Greatest(markers)].msg)

CommitDate(i) == strftime(commits[i].author_date)

NormalizedLines(c) == {parse_message(l) : l \in Range(Split(c.msg, "\n"))}

InLedger(v, d, m) ==
    /\ v \in DOMAIN versions
    /\ d \in DOMAIN versions[v]
    /\ InList(m, versions[v][d])

Returned == pc \in {"parsed", "done"}

IsVersionHeading(l) == StartsWith(l, <<"#","#"," ","V","e","r","s","i","o","n"," ">>)

IsDateHeading(l) == StartsWith(l, <<"#","#","#"," ","D","a","t","e",":"," ">>)

IsBullet(l) == StartsWith(l, <<" "," ","-"," ">>) \/ StartsWith(l, <<" "," "," "," ","-"," ">>)

BulletText(l) ==
    IF StartsWith(l, <<" "," "," "," ","-"," ">>) THEN SubSeq(l, 7, Len(l)) ELSE SubSeq(l, 5, Len(l))

VersionHeadings(lines) == SelectSeq(lines, IsVersionHeading)

BulletTexts(lines) ==
    LET bullets == SelectSeq(lines, IsBullet)
    IN  [i \in DOMAIN bullets |-> BulletText(bullets[i])]

\* the labels of the version headings, in the order rendered
RenderedLabels(lines) ==
    LET hs == VersionHeadings(lines)
    IN  [i \in DOMAIN hs |-> SubSeq(hs[i], 12, Len(hs[i]))]

\* the lines of version v's section
Section(lines, v) ==
    LET h == Least({i \in DOMAIN lines : lines[i] = <<"#","#"," ","V","e","r","s","i","o","n"," ">> \o v})
        later == {i \in (h + 1)..Len(lines) : IsVersionHeading(lines[i])}
    IN  SubSeq(lines, h + 1, IF later = {} THEN Len(lines) ELSE Least(later) - 1)

RenderedMd == pc = "done" /\ options.format = "md"

-----------------------------------------------------------------------------
(* C1: every kept commit's normalized lines are in the ledger under the label *)
(* of the most recent valid release marker at or before it ("0.0.0" if none)  *)
(* and under its date, and later commits never remove or move them.           *)
C1_AssignedEntriesStay ==
    \A i \in DOMAIN commits :
        Kept(commits[i]) =>
            \A m \in NormalizedLines(commits[i]) :
                InLedger(ExpectedVersion(i), CommitDate(i), m)

(* C2: the ledger parse_commits returns has the key "0.0.0", whose date       *)
(* buckets hold the normalized messages of all kept commits that precede the  *)
(* first valid release marker.                                                *)
C2_DefaultVersionHoldsEarlyCommits ==
    Returned =>
        /\ <<"0",".","0",".","0">> \in DOMAIN versions
        /\ \A i \in DOMAIN commits :
              (Kept(commits[i]) /\ \A j \in 1..i : ~IsReleaseMarker(commits[j])) =>
                  \A m \in NormalizedLines(commits[i]) :
                      InLedger(<<"0",".","0",".","0">>, CommitDate(i), m)

(* C3: processing a skipped commit leaves the ledger and the current version  *)
(* unchanged, also when its message holds a release marker.                   *)
C3_SkippedCommitChangesNothing ==
    [][(Len(commits') = Len(commits) + 1 /\ ClaimSkipped(Last(commits')))
          => (versions' = versions /\ versions_keys' = versions_keys
                /\ version' = version)]_vars

\* a skipped commit carrying a release marker was processed after a commit
\* that filled the ledger
C3_Witness ==
    /\ Len(commits) >= 2
    /\ ClaimSkipped(Last(commits))
    /\ ReleaseLabel(Last(commits).msg) # <<>>
    /\ version # ReleaseLabel(Last(commits).msg)
    /\ \E v \in DOMAIN versions : \E d \in DOMAIN versions[v] : versions[v][d] # <<>>

(* C4: no (version, date) message list of the ledger holds the same           *)
(* normalized string twice.                                                   *)
C4_NoDuplicateMessages ==
    \A v \in DOMAIN versions :
        \A d \in DOMAIN versions[v] :
            \A i, j \in DOMAIN versions[v][d] :
                i # j => versions[v][d][i] # versions[v][d][j]

CombinedEndToEnd ==
    pc = "done" /\ commits = EndToEndCommits /\ ~options.date_group

EndToEndShape(bullet) ==
    /\ Len(VersionHeadings(output.lines)) = 1
    /\ BulletTexts(output.lines) = <<bullet>>
    /\ \A i \in DOMAIN output.lines :
          ~Contains(Lower(output.lines[i]), <<"m","e","r","g","e"," ","b","r","a","n","c","h"," ","x">>)

(* C5, as amended: for the commits "Add new feature #5" and "merge branch x",  *)
(* combined rendering outputs one version section with the one bullet         *)
(* "Add: new Feature:  (Related to issue: #5)" and nothing of the merge        *)
(* commit's text.                                                             *)
C5_EndToEnd ==
    CombinedEndToEnd => EndToEndShape(<<"A","d","d",":"," ","n","e","w"," ","F","e","a","t","u","r","e",":"," "," ","(","R","e","l","a","t","e","d"," ","t","o"," ","i","s","s","u","e",":"," ","#","5",")">>)

C5_Witness == CombinedEndToEnd /\ output.sink = "stdout"

(* C5, as stated: the one bullet is "Add: new feature (Related to issue: #5)". *)
C5_AsStated ==
    CombinedEndToEnd => EndToEndShape(<<"A","d","d",":"," ","n","e","w"," ","f","e","a","t","u","r","e"," ","(","R","e","l","a","t","e","d"," ","t","o"," ","i","s","s","u","e",":"," ","#","5",")">>)

\* every "#" with its run of digits, left to right, as re.findall("#[\d]+") lists them
RECURSIVE TokensFrom(_, _)
TokensFrom(s, i) ==
    LET starts == {j \in i..(Len(s) - 1) : s[j] = "#" /\ IsDigit(s[j + 1])}
    IN  IF starts = {} THEN <<>>
        ELSE LET j == Least(starts)
             IN  <<SubSeq(s, j, RunEnd(s, j + 1))>> \o TokensFrom(s, RunEnd(s, j + 1) + 1)

IssueTokens(s) == TokensFrom(s, 1)

RelatedTo(token) == <<"(","R","e","l","a","t","e","d"," ","t","o"," ","i","s","s","u","e",":"," ">> \o token \o <<")">>

\* the result without the suffix for token
Body(res, token) == SubSeq(res, 1, Len(res) - Len(RelatedTo(token)))

Applied == pc = "applied" /\ IssueTokens(line) # <<>>

(* C6, as amended: for every line that holds a "#" followed by digits,        *)
(* parse_message extracts one token, the last match in the line: the result   *)
(* ends with "(Related to issue: #NNNN)" for it, after a space unless the     *)
(* body ends with the rewritten word "Enhancement:"; when the line holds no   *)
(* other "#", the token no longer occurs in the body and the suffix occurs    *)
(* once; "fix: login bug #42" gives "Fix: login bug  (Related to issue: #42)". *)
C6_LastTokenExtracted ==
    Applied =>
        LET token == Last(IssueTokens(line))
        IN  /\ \/ EndsWith(result, <<" ">> \o RelatedTo(token))
               \/ EndsWith(result, <<"E","n","h","a","n","c","e","m","e","n","t",":">> \o RelatedTo(token))
            /\ CountFrom(line, <<"#">>, 1) = 1 =>
                  /\ ~Contains(Body(result, token), token)
                  /\ CountFrom(result, RelatedTo(token), 1) = 1
            /\ line = <<"f","i","x",":"," ","l","o","g","i","n"," ","b","u","g"," ","#","4","2">> =>
                  result = <<"F","i","x",":"," ","l","o","g","i","n"," ","b","u","g"," "," ","(","R","e","l","a","t","e","d"," ","t","o"," ","i","s","s","u","e",":"," ","#","4","2",")">>

\* parse_message ran on a line with two different tokens
C6_Witness ==
    /\ Applied
    /\ Len(IssueTokens(line)) = 2
    /\ IssueTokens(line)[1] # IssueTokens(line)[2]

(* C6, as stated: the token extracted is the first match in the line; it no   *)
(* longer occurs in the body and the suffix " (Related to issue: #NNNN)"      *)
(* occurs once, at the end.                                                   *)
C6_AsStated ==
    Applied =>
        LET token == IssueTokens(line)[1]
        IN  /\ EndsWith(result, <<" ">> \o RelatedTo(token))
            /\ ~Contains(Body(result, token), token)
            /\ CountFrom(result, <<" ">> \o RelatedTo(token), 1) = 1
            /\ line = <<"f","i","x",":"," ","l","o","g","i","n"," ","b","u","g"," ","#","4","2">> =>
                  result = <<"F","i","x",":"," ","l","o","g","i","n"," ","b","u","g"," "," ","(","R","e","l","a","t","e","d"," ","t","o"," ","i","s","s","u","e",":"," ","#","4","2",")">>

DigitValue(c) == (CHOOSE i \in DOMAIN Digits : Digits[i] = c) - 1

\* int(s) for a run of digits, 0 for an empty one
RECURSIVE NumberOf(_)
NumberOf(s) ==
    IF s = <<>> THEN 0
    ELSE 10 * NumberOf(SubSeq(s, 1, Len(s) - 1)) + DigitValue(Last(s))

Component(label, k) ==
    LET parts == Split(label, ".")
    IN  IF Len(parts) >= k THEN parts[k] ELSE <<>>

\* (major, minor, patch), a missing component counting as 0
NumericKey(label) == [k \in 1..3 |-> NumberOf(Component(label, k))]

TripleGeq(a, b) ==
    \/ a[1] > b[1]
    \/ a[1] = b[1] /\ a[2] > b[2]
    \/ a[1] = b[1] /\ a[2] = b[2] /\ a[3] >= b[3]

ComponentsAtMost9999(label) == \A k \in 1..3 : NumberOf(Component(label, k)) <= 9999

ComponentsOfFourDigits(label) == \A k \in 1..3 : Len(Component(label, k)) <= 4

ExampleLabels == {<<"2",".","0",".","0">>, <<"1","0",".","0",".","0">>, <<"1",".","9",".","9">>}

RenderedExample ==
    (DOMAIN versions = ExampleLabels \cup {<<"0",".","0",".","0">>}) =>
        RenderedLabels(output.lines) = <<<<"1","0",".","0",".","0">>, <<"2",".","0",".","0">>, <<"1",".","9",".","9">>, <<"0",".","0",".","0">>>>

(* C7, as amended: rendering visits the ledger's labels in descending numeric *)
(* order of (major, minor, patch) for all labels whose components are        *)
(* written with at most 4 digits; {"2.0.0", "10.0.0", "1.9.9"} are rendered   *)
(* in the order 10.0.0, 2.0.0, 1.9.9.                                         *)
C7_DescendingVersions ==
    RenderedMd =>
        LET labels == RenderedLabels(output.lines)
        IN  /\ Range(labels) = DOMAIN versions
            /\ \A i, j \in DOMAIN labels :
                  (i < j /\ ComponentsOfFourDigits(labels[i])
                         /\ ComponentsOfFourDigits(labels[j]))
                      => TripleGeq(NumericKey(labels[i]), NumericKey(labels[j]))
            /\ RenderedExample

C7_Witness == RenderedMd /\ DOMAIN versions = ExampleLabels \cup {<<"0",".","0",".","0">>}

(* C7, as stated: the order is descending for all labels whose components     *)
(* are at most 9999.                                                          *)
C7_AsStated ==
    RenderedMd =>
        LET labels == RenderedLabels(output.lines)
        IN  /\ Range(labels) = DOMAIN versions
            /\ \A i, j \in DOMAIN labels :
                  (i < j /\ ComponentsAtMost9999(labels[i])
                         /\ ComponentsAtMost9999(labels[j]))
                      => TripleGeq(NumericKey(labels[i]), NumericKey(labels[j]))
            /\ RenderedExample

(* C8: in date-grouped rendering, a date with no message is printed under     *)
(* the date heading printed before it, not under its own date, followed by    *)
(* the placeholder bullet.                                                    *)
C8_EmptyDateBorrowsHeading ==
    (RenderedMd /\ options.date_group) =>
        \A i \in DOMAIN output.lines :
            LET lines == output.lines
                earlier == {j \in 1..(i - 1) : IsDateHeading(lines[j])}
            IN  (/\ IsDateHeading(lines[i])
                 /\ i < Len(lines)
                 /\ IsBullet(lines[i + 1])
                 /\ BulletText(lines[i + 1]) = Placeholder
                 /\ earlier # {})
                    => lines[i] = lines[Greatest(earlier)]

\* the commits that are not skipped and fall under label v
AssignedTo(v) ==
    {i \in DOMAIN commits : ~ClaimSkipped(commits[i]) /\ ExpectedVersion(i) = v}

MarkerOnly(v) ==
    AssignedTo(v) # {} /\ \A i \in AssignedTo(v) : ClaimMarker(commits[i])

(* C9: a version whose only commits that are not skipped are merge or         *)
(* version-marker messages has an empty date bucket for each such commit's    *)
(* date, and its section is rendered with the placeholder bullet alone, in    *)
(* combined and in date-grouped mode.                                         *)
C9_MarkerOnlyVersion ==
    RenderedMd =>
        \A v \in {ExpectedVersion(i) : i \in DOMAIN commits} :
            MarkerOnly(v) =>
                /\ v \in DOMAIN versions
                /\ \A i \in AssignedTo(v) :
                      /\ CommitDate(i) \in DOMAIN versions[v]
                      /\ versions[v][CommitDate(i)] = <<>>
                /\ LET texts == BulletTexts(Section(output.lines, v))
                   IN  texts # <<>> /\ \A k \in DOMAIN texts : texts[k] = Placeholder

\* the label of the title line or the top-level key of the JSON document
OutputLabel ==
    IF options.format = "md"
    THEN SubSeq(output.lines[1], 3, Len(output.lines[1]))
    ELSE output.json.key

(* C10: a name given with --repo-name is the label of the title line and the  *)
(* JSON top-level key; auto-discovery is used only when none is given.        *)
C10_ExplicitNameIsUsed ==
    (pc = "done" /\ options.name # <<>>) => OutputLabel = options.name

====
